---- MODULE Spec2Model ----
(***************************************************************************)
(* Model of for_streamlit.py: the UK population dashboard.                 *)
(*                                                                         *)
(* A data frame is a sequence of rows, a row is a function from column     *)
(* names to values.  A Python str whose characters matter (an age label,   *)
(* a name that is ordered, a column name a regex runs over) is handled     *)
(* through Chars, its sequence of one-character strings, and Ord, the code *)
(* point of a character.                                                   *)
(***************************************************************************)
EXTENDS Integers, Sequences, FiniteSets, TLC

VARIABLES
    files,                  \* the two CSV files on disk
    cache,                  \* the st.cache_data store: function name -> value
    error,                  \* the uncaught exception of the last run, or "none"
    pc,                     \* "start" before the first script run, "ready" after a
                            \* complete run, "failed" after an aborted one
    df_density,             \* module globals bound by the last run
    df_age_gender_detail,
    df_age_gender_melted,
    filtered_df_density,    \* the derived views bound by the last run
    filtered_df_age_detail,
    grouped_df_gender,
    selected_density_locations,     \* widget values (session state)
    selected_age_gender_location,
    selected_gender_display,
    selected_gender_comp_year,
    selected_gender_comp_locs,
    selected_gender_comp_age_band,
    chart_density,          \* what st.plotly_chart was last given, per section
    chart_age,
    chart_gender,
    reruns                  \* the reruns of the script so far in this session

vars == <<files, cache, error, pc, df_density, df_age_gender_detail,
          df_age_gender_melted, filtered_df_density, filtered_df_age_detail,
          grouped_df_gender, selected_density_locations,
          selected_age_gender_location, selected_gender_display,
          selected_gender_comp_year, selected_gender_comp_locs,
          selected_gender_comp_age_band, chart_density, chart_age, chart_gender,
          reruns>>

widgets == <<selected_density_locations, selected_age_gender_location,
             selected_gender_display, selected_gender_comp_year,
             selected_gender_comp_locs, selected_gender_comp_age_band>>

charts == <<chart_density, chart_age, chart_gender>>

globals == <<df_density, df_age_gender_detail, df_age_gender_melted>>

views == <<filtered_df_density, filtered_df_age_detail, grouped_df_gender>>

(***************************************************************************)
(* Bounds of the model.                                                    *)
(***************************************************************************)
\* the most distinct age labels a generated age/gender file holds per (name, sex)
MaxLabels == 2
\* the most rows a generated density file holds
MaxDensityRows == 3
\* the most widget changes (reruns of the script) of one session
MaxReruns == 3

(***************************************************************************)
(* Python values.                                                          *)
(***************************************************************************)
None == "<None>"
NaN == "<NaN>"

\* truthiness of a str-or-None / of a list held as a set
falsy(x) == x = None \/ x = ""

Digits == {"0", "1", "2", "3", "4", "5", "6", "7", "8", "9"}

DigitVal(c) ==
    CASE c = "0" -> 0 [] c = "1" -> 1 [] c = "2" -> 2 [] c = "3" -> 3
      [] c = "4" -> 4 [] c = "5" -> 5 [] c = "6" -> 6 [] c = "7" -> 7
      [] c = "8" -> 8 [] c = "9" -> 9

\* code points of the characters that the location names and sex codes use
Ord(c) ==
    CASE c = " " -> 32 [] c = "A" -> 65 [] c = "C" -> 67 [] c = "D" -> 68
      [] c = "E" -> 69 [] c = "F" -> 70 [] c = "G" -> 71 [] c = "H" -> 72
      [] c = "I" -> 73 [] c = "L" -> 76 [] c = "M" -> 77 [] c = "N" -> 78
      [] c = "O" -> 79 [] c = "R" -> 82 [] c = "S" -> 83 [] c = "T" -> 84
      [] c = "W" -> 87

\* the characters of the strings that are ordered or scanned
Chars(s) ==
    CASE s = "ENGLAND" -> <<"E", "N", "G", "L", "A", "N", "D">>
      [] s = "SCOTLAND" -> <<"S", "C", "O", "T", "L", "A", "N", "D">>
      [] s = "WALES" -> <<"W", "A", "L", "E", "S">>
      [] s = "NORTHERN IRELAND" ->
            <<"N", "O", "R", "T", "H", "E", "R", "N", " ",
              "I", "R", "E", "L", "A", "N", "D">>
      [] s = "F" -> <<"F">>
      [] s = "M" -> <<"M">>
      [] s = "population_2011" ->
            <<"p", "o", "p", "u", "l", "a", "t", "i", "o", "n", "_",
              "2", "0", "1", "1">>
      [] s = "population_2022" ->
            <<"p", "o", "p", "u", "l", "a", "t", "i", "o", "n", "_",
              "2", "0", "2", "2">>

\* Python's str < str: lexicographic by code point, a proper prefix is smaller
RECURSIVE seq_lt(_, _)
seq_lt(a, b) ==
    IF b = <<>> THEN FALSE
    ELSE IF a = <<>> THEN TRUE
    ELSE IF Ord(Head(a)) # Ord(Head(b)) THEN Ord(Head(a)) < Ord(Head(b))
    ELSE seq_lt(Tail(a), Tail(b))

str_lt(a, b) == a # b /\ seq_lt(Chars(a), Chars(b))

\* the decimal value of a non-empty run of digits, left to right
RECURSIVE digits_value(_, _)
digits_value(ds, acc) ==
    IF ds = <<>> THEN acc
    ELSE digits_value(Tail(ds), 10 * acc + DigitVal(Head(ds)))

\* Python's int(str) on the characters + - digits and others: an optional sign,
\* then one or more digits; anything else raises ValueError
int_of_str(s) ==
    LET signed == s # <<>> /\ Head(s) \in {"+", "-"}
        body == IF signed THEN Tail(s) ELSE s
        mag == digits_value(body, 0)
    IN  IF body = <<>> \/ \E i \in DOMAIN body : body[i] \notin Digits
        THEN [ok |-> FALSE, v |-> 0]
        ELSE [ok |-> TRUE,
              v |-> IF signed /\ Head(s) = "-" THEN 0 - mag ELSE mag]

\* sorted(list): ascending by str <
RECURSIVE sorted(_)
sorted(S) ==
    IF S = {} THEN <<>>
    ELSE LET m == CHOOSE x \in S : \A y \in S : ~str_lt(y, x)
         IN <<m>> \o sorted(S \ {m})

\* the columns whose values are str; the others that are sorted on are integers
StrCols == {"name", "sex"}

\* whether row a comes strictly before row b under the sort keys by, in order
RECURSIVE row_lt(_, _, _)
row_lt(a, b, by) ==
    IF by = <<>> THEN FALSE
    ELSE LET c == Head(by)
             less == IF c \in StrCols THEN str_lt(a[c], b[c]) ELSE a[c] < b[c]
         IN IF less THEN TRUE
            ELSE IF a[c] # b[c] THEN FALSE
            ELSE row_lt(a, b, Tail(by))

RECURSIVE insert_row(_, _, _)
insert_row(r, s, by) ==
    IF s = <<>> THEN <<r>>
    ELSE IF row_lt(r, s[Len(s)], by)
         THEN Append(insert_row(r, SubSeq(s, 1, Len(s) - 1), by), s[Len(s)])
         ELSE Append(s, r)

\* DataFrame.sort_values(by): ascending, rows with equal keys keep their order;
\* a new frame
RECURSIVE sort_values(_, _)
sort_values(df, by) ==
    IF df = <<>> THEN <<>>
    ELSE insert_row(df[Len(df)], sort_values(SubSeq(df, 1, Len(df) - 1), by), by)

\* Series.unique(): the distinct values of a column, as a set
unique(df, col) == {df[i][col] : i \in DOMAIN df}

\* the sum of a column
RECURSIVE sum_col(_, _)
sum_col(df, col) ==
    IF df = <<>> THEN 0 ELSE df[1][col] + sum_col(Tail(df), col)

\* df[mask]: the rows that satisfy keep, in order, as a new frame
getitem_mask(df, keep(_)) == SelectSeq(df, keep)

(***************************************************************************)
(* The input files.                                                        *)
(***************************************************************************)
LocationNames == {"ENGLAND", "SCOTLAND", "WALES", "NORTHERN IRELAND"}

Sexes == {"M", "F"}

\* the literal that line 42 replaces
Label90Plus == <<"9", "0", "+">>

\* the age labels the generated files draw from: the band edges on both sides,
\* the sentinel, signed numbers and labels int() rejects
AgeLabelPool ==
    { <<"0">>, <<"1", "7">>, <<"1", "8">>, <<"2", "4">>, <<"2", "5">>,
      <<"3", "9">>, <<"4", "0">>, <<"5", "9">>, <<"6", "0">>, <<"7", "4">>,
      <<"7", "5">>, <<"9", "0">>, Label90Plus, <<"-", "5">>, <<"-", "1">>,
      <<"+", "5">>, <<"9", "x">>, <<"9", "+">> }

\* the sequences of n distinct elements of S
RECURSIVE Arrangements(_, _)
Arrangements(S, n) ==
    IF n = 0 THEN {<<>>}
    ELSE UNION {{<<x>> \o r : r \in Arrangements(S \ {x}, n - 1)} : x \in S}

ArrangementsUpTo(S, n) == UNION {Arrangements(S, k) : k \in 1..n}

NameIndex(n) ==
    CASE n = "ENGLAND" -> 1 [] n = "SCOTLAND" -> 2 [] n = "WALES" -> 3
      [] n = "NORTHERN IRELAND" -> 4

\* one row of MYE5_Table8.csv, under its original headers
density_raw_row(n) ==
    LET k == NameIndex(n)
    IN  ("Name" :> n) @@ ("Code" :> <<"code", k>>) @@ ("Geography" :> "Country")
        @@ ("Area (sq km)" :> 1000 * k + 7)
        @@ ("Estimated Population mid-2022" :> 520 * k + 3)
        @@ ("2022 people per sq. km" :> 60 - 7 * k)
        @@ ("Estimated Population mid-2011" :> 500 * k + 1)
        @@ ("2011 people per sq. km" :> 50 - 6 * k)

\* a density file: one row per name, in the order given
density_file(names) == [i \in DOMAIN names |-> density_raw_row(names[i])]

\* one row of MYEB1_Table9.csv; g = <<name, sex>>, gi and li number the group
\* and the label so that no two populations of a file are equal
age_gender_raw_row(g, label, gi, li) ==
    [name |-> g[1], sex |-> g[2], age |-> label,
     population_2011 |-> 100 * gi + 10 * li + 1,
     population_2022 |-> 100 * gi + 10 * li + 5 + gi]

\* an age/gender file: for every group in order, one row per label in order
age_gender_file(groups, labels) ==
    LET L == Len(labels)
    IN  [k \in 1..(Len(groups) * L) |->
            LET gi == ((k - 1) \div L) + 1
                li == ((k - 1) % L) + 1
            IN  age_gender_raw_row(groups[gi], labels[li], gi, li)]

(***************************************************************************)
(* Loader and preprocessors (lines 18-65).                                 *)
(***************************************************************************)
load_data(fs) == <<fs.MYE5_Table8, fs.MYEB1_Table9>>

\* the columns mapping of line 27
density_columns(c) ==
    CASE c = "Area (sq km)" -> "area_sq_km"
      [] c = "Estimated Population mid-2022" -> "population_2022"
      [] c = "2022 people per sq. km" -> "density_2022"
      [] c = "Estimated Population mid-2011" -> "population_2011"
      [] c = "2011 people per sq. km" -> "density_2011"
      [] c = "Name" -> "name"
      [] c = "Code" -> "code"
      [] c = "Geography" -> "geography"
      [] OTHER -> c

\* DataFrame.rename(columns=...): every row under the new headers, values kept
rename_columns(df) ==
    [i \in DOMAIN df |->
        [c \in {density_columns(k) : k \in DOMAIN df[i]} |->
            df[i][CHOOSE k \in DOMAIN df[i] : density_columns(k) = c]]]

preprocess_density_data(df_density_raw) == rename_columns(df_density_raw)

\* a slip in line 42: the sentinel replaced by 9 instead of 90
replace_90plus_as_9(label) ==
    IF label = Label90Plus THEN [t |-> "int", i |-> 9, s |-> <<>>]
    ELSE [t |-> "str", i |-> 0, s |-> label]

\* Series.replace('90+', 90): the literal becomes the integer, the rest stay str
replace_90plus(label) ==
    IF label = Label90Plus THEN [t |-> "int", i |-> 90, s |-> <<>>]
    ELSE [t |-> "str", i |-> 0, s |-> label]

\* astype(int) on one element: an int stays, a str goes through int()
astype_int(x) ==
    IF x.t = "int" THEN [ok |-> TRUE, v |-> x.i] ELSE int_of_str(x.s)

\* line 42 for one label
age_numeric_of(label) == astype_int(replace_90plus(label))

bins == <<-1, 17, 24, 39, 59, 74>>   \* and np.inf, which no age exceeds

labels == <<"0-17", "18-24", "25-39", "40-59", "60-74", "75+">>

\* pd.cut(x, bins, labels, right=True): the label of the interval
\* (bins[k], bins[k+1]] that holds x; NaN when x <= bins[1]
cut(x) ==
    LET k == Cardinality({i \in DOMAIN bins : bins[i] < x})
    IN  IF k = 0 THEN NaN ELSE labels[k]

value_vars == <<"population_2011", "population_2022">>

\* Year_Col.str.extract(r'(\d+)').astype(int): the first run of digits
year_of(col) ==
    LET cs == Chars(col)
        first == CHOOSE i \in DOMAIN cs :
                    cs[i] \in Digits /\ \A j \in 1..(i - 1) : cs[j] \notin Digits
        last == CHOOSE j \in first..Len(cs) :
                    /\ \A m \in first..j : cs[m] \in Digits
                    /\ (j = Len(cs) \/ cs[j + 1] \notin Digits)
    IN  digits_value(SubSeq(cs, first, last), 0)

\* a slip in lines 51-56: the value always taken from the first value column
melted_row_first_column(d, col) ==
    [name |-> d.name, sex |-> d.sex, age |-> d.age,
     age_numeric |-> d.age_numeric, age_band |-> d.age_band,
     Population |-> d[value_vars[1]], Year |-> year_of(col)]

\* one long-form row: the id_vars of a detail row, Population and Year
melted_row(d, col) ==
    [name |-> d.name, sex |-> d.sex, age |-> d.age,
     age_numeric |-> d.age_numeric, age_band |-> d.age_band,
     Population |-> d[col], Year |-> year_of(col)]

\* DataFrame.melt (lines 51-58): all rows for the first value column, then all
\* rows for the second
melt(detail) ==
    LET n == Len(detail)
    IN  [k \in 1..(Len(value_vars) * n) |->
            melted_row(detail[((k - 1) % n) + 1],
                       value_vars[((k - 1) \div n) + 1])]

detail_row(r) ==
    LET a == age_numeric_of(r.age).v
    IN  [name |-> r.name, sex |-> r.sex, age |-> r.age,
         population_2011 |-> r.population_2011,
         population_2022 |-> r.population_2022,
         age_numeric |-> a, age_band |-> cut(a)]

\* lines 40-60; ok is FALSE when astype(int) raises ValueError
preprocess_age_gender_data(df_age_gender_raw) ==
    IF \E i \in DOMAIN df_age_gender_raw :
            ~age_numeric_of(df_age_gender_raw[i].age).ok
    THEN [ok |-> FALSE, detail |-> <<>>, melted |-> <<>>]
    ELSE LET detail == [i \in DOMAIN df_age_gender_raw |->
                            detail_row(df_age_gender_raw[i])]
         IN  [ok |-> TRUE, detail |-> detail,
              melted |-> sort_values(melt(detail),
                                     <<"name", "Year", "sex", "age_numeric">>)]

(***************************************************************************)
(* Dropdown values and the placeholder figure (lines 67-88).               *)
(***************************************************************************)
density_locations(density) == sorted(unique(density, "name"))

age_gender_locations(melted) == sorted(unique(melted, "name"))

genders_map(code) == IF code = "M" THEN "Male" ELSE "Female"

\* the inverted dict of line 71; a display value that is no key raises KeyError
genders_options(display) ==
    CASE display = "Male" -> "M" [] display = "Female" -> "F"

age_bands_raw == labels

age_bands_options == <<"All Ages">> \o age_bands_raw

\* set of the elements of a sequence
Range(s) == {s[i] : i \in DOMAIN s}

column(df, c) == [i \in DOMAIN df |-> df[i][c]]

\* go.Figure() with a title and hidden axes: no trace is ever added
create_empty_figure(title_text) ==
    [title |-> title_text, traces |-> <<>>, axes_visible |-> FALSE,
     categoryarray |-> <<>>]

\* a chart section that was not reached yet
NotRendered == [title |-> <<"not rendered">>, traces |-> <<>>,
                axes_visible |-> FALSE, categoryarray |-> <<>>]

trace(kind, name, x, y, color) ==
    [type |-> kind, name |-> name, x |-> x, y |-> y, marker_color |-> color]

(***************************************************************************)
(* Section 1: population density comparison (lines 102-140).  Each section *)
(* yields the figure it plots and the base table as the section leaves it. *)
(***************************************************************************)
\* a slip in lines 105-107: the trailing sort_values('name') left out
density_filter_unsorted(density, selected) ==
    [base |-> density,
     view |-> getitem_mask(density, LAMBDA r : r.name \in selected)]

\* lines 105-107: the rows whose name is selected, by name
density_filter(density, selected) ==
    [base |-> density,
     view |-> sort_values(
                getitem_mask(density, LAMBDA r : r.name \in selected),
                <<"name">>)]

fig_density(filtered, selected) ==
    [title |-> <<"Population Density: 2011 vs 2022">>,
     traces |-> <<trace("Bar", "Density 2011", column(filtered, "name"),
                        column(filtered, "density_2011"), "#999999"),
                  trace("Bar", "Density 2022", column(filtered, "name"),
                        column(filtered, "density_2022"), "#56B4E9")>>,
     axes_visible |-> TRUE,
     categoryarray |-> sorted(selected)]

density_section(density, selected) ==
    IF selected = {}
    THEN [base |-> density, view |-> <<>>,
          chart |-> create_empty_figure(
            <<"Please select at least one location for density comparison.">>)]
    ELSE LET f == density_filter(density, selected)
         IN  [base |-> f.base, view |-> f.view,
              chart |-> fig_density(f.view, selected)]

(***************************************************************************)
(* Section 2: population age distribution (lines 164-208).                 *)
(***************************************************************************)
\* lines 167-170
age_filter(detail, location, gender) ==
    [base |-> detail,
     view |-> sort_values(
                getitem_mask(detail,
                    LAMBDA r : r.name = location /\ r.sex = gender),
                <<"age_numeric">>)]

fig_age_gender(filtered, location, gender) ==
    [title |-> <<genders_map(gender), " Population Age Distribution in ",
                 location>>,
     traces |-> <<trace("Scatter", "Population 2011", column(filtered, "age"),
                        column(filtered, "population_2011"), "#999999"),
                  trace("Scatter", "Population 2022", column(filtered, "age"),
                        column(filtered, "population_2022"), "#56B4E9")>>,
     axes_visible |-> TRUE,
     categoryarray |-> <<>>]

\* a slip in lines 172-173: the figure built without the check for no rows
age_section_without_empty_check(detail, location, gender) ==
    IF falsy(location) \/ falsy(gender)
    THEN [base |-> detail, view |-> <<>>,
          chart |-> create_empty_figure(
            <<"Please select location and gender for age distribution.">>)]
    ELSE LET f == age_filter(detail, location, gender)
         IN  [base |-> f.base, view |-> f.view,
              chart |-> fig_age_gender(f.view, location, gender)]

age_section(detail, location, gender) ==
    IF falsy(location) \/ falsy(gender)
    THEN [base |-> detail, view |-> <<>>,
          chart |-> create_empty_figure(
            <<"Please select location and gender for age distribution.">>)]
    ELSE LET f == age_filter(detail, location, gender)
         IN  [base |-> f.base, view |-> f.view,
              chart |-> IF f.view = <<>>
                        THEN create_empty_figure(
                                <<"No data for ", location, " / ",
                                  genders_map(gender)>>)
                        ELSE fig_age_gender(f.view, location, gender)]

(***************************************************************************)
(* Section 3: gender population comparison (lines 236-301).                *)
(***************************************************************************)
\* f"{year}"
year_str(y) == IF y = 2011 THEN "2011" ELSE IF y = 2022 THEN "2022" ELSE "0"

\* a slip in lines 245-246: the band filter left out
gender_filter_without_band(melted, year, locs, band) ==
    [base |-> melted,
     view |-> getitem_mask(melted,
                LAMBDA r : r.Year = year /\ r.name \in locs)]

\* a slip in lines 239-246: the filtered rows assigned to df_age_gender_melted
\* itself
gender_filter_in_place(melted, year, locs, band) ==
    LET by_year_loc == getitem_mask(melted,
                            LAMBDA r : r.Year = year /\ r.name \in locs)
        filtered == IF band # "All Ages"
                    THEN getitem_mask(by_year_loc, LAMBDA r : r.age_band = band)
                    ELSE by_year_loc
    IN  [base |-> filtered, view |-> filtered]

\* lines 239-248: the rows of the year and the locations, then of the band
\* unless the band is 'All Ages'
gender_filter(melted, year, locs, band) ==
    LET by_year_loc == getitem_mask(melted,
                            LAMBDA r : r.Year = year /\ r.name \in locs)
    IN  [base |-> melted,
         view |-> IF band # "All Ages"
                  THEN getitem_mask(by_year_loc, LAMBDA r : r.age_band = band)
                  ELSE by_year_loc]

RECURSIVE set_to_seq(_)
set_to_seq(S) ==
    IF S = {} THEN <<>>
    ELSE LET x == CHOOSE y \in S : TRUE IN <<x>> \o set_to_seq(S \ {x})

\* groupby(['name', 'sex'])['Population'].sum().reset_index(): one row per
\* (name, sex) that occurs, keys ascending
groupby_sum(df) ==
    LET keys == {<<df[i].name, df[i].sex>> : i \in DOMAIN df}
        total(k) == sum_col(getitem_mask(df,
                        LAMBDA r : r.name = k[1] /\ r.sex = k[2]), "Population")
    IN  sort_values(
            set_to_seq({[name |-> k[1], sex |-> k[2], Population |-> total(k)]
                        : k \in keys}),
            <<"name", "sex">>)

fig_gender_comp(grouped, year, locs, band, age_title_part) ==
    LET df_female == getitem_mask(grouped, LAMBDA r : r.sex = "F")
        df_male == getitem_mask(grouped, LAMBDA r : r.sex = "M")
    IN  [title |-> <<"Population by Gender in ", year_str(year), " ",
                     age_title_part>>,
         traces |-> <<trace("Bar", "Female", column(df_female, "name"),
                            column(df_female, "Population"), "#E69F00"),
                      trace("Bar", "Male", column(df_male, "name"),
                            column(df_male, "Population"), "#0072B2")>>,
         axes_visible |-> TRUE,
         categoryarray |-> sorted(locs)]

gender_section(melted, year, locs, band) ==
    IF locs = {} \/ year = 0 \/ falsy(band)
    THEN [base |-> melted, view |-> <<>>,
          chart |-> create_empty_figure(
            <<"Select year, location(s), and age band for gender comparison.">>)]
    ELSE LET f == gender_filter(melted, year, locs, band)
             age_title_part == IF band # "All Ages"
                               THEN <<"(", band, ")">> ELSE <<"(All Ages)">>
             grouped == groupby_sum(f.view)
         IN  [base |-> f.base, view |-> grouped,
              chart |-> IF grouped = <<>>
                        THEN create_empty_figure(
                                <<"No data for selection in ", year_str(year),
                                  " ", age_title_part>>)
                        ELSE fig_gender_comp(
                                sort_values(grouped, <<"name", "sex">>),
                                year, locs, band, age_title_part)]

(***************************************************************************)
(* st.cache_data (lines 19, 25, 39): a function's value is computed on its *)
(* first call and returned from the store afterwards.  The arguments never *)
(* change between calls (the files are static), so the function name keys  *)
(* the store.  An exception stores nothing.                                *)
(***************************************************************************)
EmptyCache ==
    [has |-> {},
     load_data |-> <<<<>>, <<>>>>,
     preprocess_density_data |-> <<>>,
     preprocess_age_gender_data |-> [ok |-> FALSE, detail |-> <<>>, melted |-> <<>>]]

cached_load_data(c, fs) ==
    IF "load_data" \in c.has THEN c
    ELSE [c EXCEPT !.has = @ \cup {"load_data"}, !.load_data = load_data(fs)]

cached_preprocess_density_data(c) ==
    IF "preprocess_density_data" \in c.has THEN c
    ELSE [c EXCEPT !.has = @ \cup {"preprocess_density_data"},
                   !.preprocess_density_data =
                        preprocess_density_data(c.load_data[1])]

\* [c, r]: the store afterwards and the value returned (r.ok FALSE: it raised)
cached_preprocess_age_gender_data(c) ==
    IF "preprocess_age_gender_data" \in c.has
    THEN [c |-> c, r |-> c.preprocess_age_gender_data]
    ELSE LET r == preprocess_age_gender_data(c.load_data[2])
         IN  IF r.ok
             THEN [c |-> [c EXCEPT !.has = @ \cup {"preprocess_age_gender_data"},
                                   !.preprocess_age_gender_data = r],
                   r |-> r]
             ELSE [c |-> c, r |-> r]

(***************************************************************************)
(* One run of the script, top to bottom, with the widget values w.         *)
(***************************************************************************)
DefaultLocations == {"ENGLAND", "SCOTLAND", "WALES", "NORTHERN IRELAND"}

\* the values the widgets return on the first run (lines 96-100, 150-160,
\* 218-234)
default_widgets(melted) ==
    LET locs == age_gender_locations(melted)
    IN  [density_locs |-> DefaultLocations,
         age_loc |-> IF "ENGLAND" \in Range(locs) THEN "ENGLAND"
                     ELSE IF locs # <<>> THEN locs[1] ELSE None,
         gender_display |-> "Male",
         year |-> 2022,
         comp_locs |-> DefaultLocations,
         band |-> age_bands_options[1]]

\* a slip in lines 63-65 and 239-246: the cached long-form table handed out by
\* reference and filtered in place, so that the store keeps the filtered rows
script_filtering_the_cached_table(c, fs, w, first) ==
    LET c1 == cached_load_data(c, fs)
        c2 == cached_preprocess_density_data(c1)
        a == cached_preprocess_age_gender_data(c2)
    IN  IF ~a.r.ok
        THEN [cache |-> a.c, error |-> "ValueError", pc |-> "failed", w |-> w,
              df_density |-> c2.preprocess_density_data,
              df_age_gender_detail |-> <<>>, df_age_gender_melted |-> <<>>,
              filtered_df_density |-> <<>>, filtered_df_age_detail |-> <<>>,
              grouped_df_gender |-> <<>>,
              chart_density |-> NotRendered, chart_age |-> NotRendered,
              chart_gender |-> NotRendered]
        ELSE LET v == IF first THEN default_widgets(a.r.melted) ELSE w
                 s1 == density_section(c2.preprocess_density_data, v.density_locs)
                 s2 == age_section(a.r.detail, v.age_loc,
                                   genders_options(v.gender_display))
                 s3 == gender_section(a.r.melted, v.year, v.comp_locs, v.band)
                 kept == getitem_mask(a.r.melted,
                            LAMBDA r : r.name \in v.comp_locs)
             IN  [cache |-> [a.c EXCEPT !.preprocess_age_gender_data.melted = kept],
                  error |-> "none", pc |-> "ready", w |-> v,
                  df_density |-> s1.base,
                  df_age_gender_detail |-> s2.base,
                  df_age_gender_melted |-> s3.base,
                  filtered_df_density |-> s1.view,
                  filtered_df_age_detail |-> s2.view,
                  grouped_df_gender |-> s3.view,
                  chart_density |-> s1.chart, chart_age |-> s2.chart,
                  chart_gender |-> s3.chart]

\* first is TRUE on the first run, when every widget returns its default
script(c, fs, w, first) ==
    LET c1 == cached_load_data(c, fs)
        c2 == cached_preprocess_density_data(c1)
        a == cached_preprocess_age_gender_data(c2)
    IN  IF ~a.r.ok
        THEN [cache |-> a.c, error |-> "ValueError", pc |-> "failed", w |-> w,
              df_density |-> c2.preprocess_density_data,
              df_age_gender_detail |-> <<>>, df_age_gender_melted |-> <<>>,
              filtered_df_density |-> <<>>, filtered_df_age_detail |-> <<>>,
              grouped_df_gender |-> <<>>,
              chart_density |-> NotRendered, chart_age |-> NotRendered,
              chart_gender |-> NotRendered]
        ELSE LET v == IF first THEN default_widgets(a.r.melted) ELSE w
                 s1 == density_section(c2.preprocess_density_data, v.density_locs)
                 s2 == age_section(a.r.detail, v.age_loc,
                                   genders_options(v.gender_display))
                 s3 == gender_section(a.r.melted, v.year, v.comp_locs, v.band)
             IN  [cache |-> a.c, error |-> "none", pc |-> "ready", w |-> v,
                  df_density |-> s1.base,
                  df_age_gender_detail |-> s2.base,
                  df_age_gender_melted |-> s3.base,
                  filtered_df_density |-> s1.view,
                  filtered_df_age_detail |-> s2.view,
                  grouped_df_gender |-> s3.view,
                  chart_density |-> s1.chart, chart_age |-> s2.chart,
                  chart_gender |-> s3.chart]

current_widgets ==
    [density_locs |-> selected_density_locations,
     age_loc |-> selected_age_gender_location,
     gender_display |-> selected_gender_display,
     year |-> selected_gender_comp_year,
     comp_locs |-> selected_gender_comp_locs,
     band |-> selected_gender_comp_age_band]

\* the state after a run of the script
Ran(r) ==
    /\ cache' = r.cache
    /\ error' = r.error
    /\ pc' = r.pc
    /\ df_density' = r.df_density
    /\ df_age_gender_detail' = r.df_age_gender_detail
    /\ df_age_gender_melted' = r.df_age_gender_melted
    /\ filtered_df_density' = r.filtered_df_density
    /\ filtered_df_age_detail' = r.filtered_df_age_detail
    /\ grouped_df_gender' = r.grouped_df_gender
    /\ selected_density_locations' = r.w.density_locs
    /\ selected_age_gender_location' = r.w.age_loc
    /\ selected_gender_display' = r.w.gender_display
    /\ selected_gender_comp_year' = r.w.year
    /\ selected_gender_comp_locs' = r.w.comp_locs
    /\ selected_gender_comp_age_band' = r.w.band
    /\ chart_density' = r.chart_density
    /\ chart_age' = r.chart_age
    /\ chart_gender' = r.chart_gender
    /\ UNCHANGED files

\* the process has started and no widget exists yet
Fresh(fs) ==
    /\ files = fs
    /\ cache = EmptyCache
    /\ error = "none"
    /\ pc = "start"
    /\ df_density = <<>>
    /\ df_age_gender_detail = <<>>
    /\ df_age_gender_melted = <<>>
    /\ filtered_df_density = <<>>
    /\ filtered_df_age_detail = <<>>
    /\ grouped_df_gender = <<>>
    /\ selected_density_locations = {}
    /\ selected_age_gender_location = None
    /\ selected_gender_display = None
    /\ selected_gender_comp_year = 0
    /\ selected_gender_comp_locs = {}
    /\ selected_gender_comp_age_band = None
    /\ chart_density = NotRendered
    /\ chart_age = NotRendered
    /\ chart_gender = NotRendered
    /\ reruns = 0

(***************************************************************************)
(* The application: the first run, then one rerun per widget change.       *)
(***************************************************************************)
\* every location in both sexes, WALES without its male rows
AppGroups ==
    << <<"WALES", "F">>, <<"SCOTLAND", "M">>, <<"SCOTLAND", "F">>,
       <<"ENGLAND", "M">>, <<"ENGLAND", "F">>,
       <<"NORTHERN IRELAND", "F">>, <<"NORTHERN IRELAND", "M">> >>

AppLabelLists ==
    { << <<"1", "8">>, Label90Plus, <<"1", "7">> >>,
      << <<"4", "0">>, <<"-", "5">> >>,
      << <<"9", "x">> >> }

AppDensityNames == <<"WALES", "ENGLAND", "SCOTLAND", "NORTHERN IRELAND">>

AppFiles ==
    {[MYE5_Table8 |-> density_file(AppDensityNames),
      MYEB1_Table9 |-> age_gender_file(AppGroups, ls)] : ls \in AppLabelLists}

Init == \E fs \in AppFiles : Fresh(fs)

FirstRun ==
    /\ pc = "start"
    /\ \E r \in {script(cache, files, current_widgets, TRUE)} : Ran(r)
    /\ UNCHANGED reruns

toggle(S, x) == IF x \in S THEN S \ {x} ELSE S \cup {x}

\* the widget values one user action can lead to, per widget:
\* the multiselect of line 96, one option added or removed
density_locations_changes ==
    {[current_widgets EXCEPT !.density_locs = toggle(@, n)] :
        n \in Range(density_locations(df_density))}

\* the selectbox of line 150
age_gender_location_changes ==
    {[current_widgets EXCEPT !.age_loc = n] :
        n \in Range(age_gender_locations(df_age_gender_melted))}

\* the selectbox of line 156
gender_display_changes ==
    {[current_widgets EXCEPT !.gender_display = genders_map(s)] : s \in Sexes}

\* the selectbox of line 218
gender_comp_year_changes ==
    {[current_widgets EXCEPT !.year = y] : y \in {2011, 2022}}

\* the multiselect of line 224, one option added or removed
gender_comp_locs_changes ==
    {[current_widgets EXCEPT !.comp_locs = toggle(@, n)] :
        n \in Range(age_gender_locations(df_age_gender_melted))}

\* the selectbox of line 230
gender_comp_age_band_changes ==
    {[current_widgets EXCEPT !.band = b] : b \in Range(age_bands_options)}

WidgetChanges ==
    density_locations_changes \cup age_gender_location_changes
    \cup gender_display_changes \cup gender_comp_year_changes
    \cup gender_comp_locs_changes \cup gender_comp_age_band_changes

\* a widget changes and the script runs again, top to bottom
Rerun ==
    /\ pc = "ready"
    /\ reruns < MaxReruns
    /\ \E w \in WidgetChanges \ {current_widgets} :
            \E r \in {script(cache, files, w, FALSE)} : Ran(r)
    /\ reruns' = reruns + 1

Next == FirstRun \/ Rerun

Spec == Init /\ [][Next]_vars

(***************************************************************************)
(* The loader and the preprocessors as functions, applied one at a time to *)
(* generated files.                                                        *)
(***************************************************************************)
PreGroups == << <<"WALES", "M">>, <<"ENGLAND", "F">>, <<"ENGLAND", "M">> >>

PreFiles ==
    {[MYE5_Table8 |-> density_file(<<"WALES", "ENGLAND">>),
      MYEB1_Table9 |-> age_gender_file(PreGroups, ls)] :
        ls \in ArrangementsUpTo(AgeLabelPool, MaxLabels)}

InitPre == \E fs \in PreFiles : Fresh(fs)

CallLoadData ==
    /\ "load_data" \notin cache.has
    /\ cache' = cached_load_data(cache, files)
    /\ UNCHANGED <<files, error, pc, globals, views, widgets, charts, reruns>>

CallPreprocessDensity ==
    /\ "load_data" \in cache.has
    /\ "preprocess_density_data" \notin cache.has
    /\ cache' = cached_preprocess_density_data(cache)
    /\ df_density' = cache'.preprocess_density_data
    /\ UNCHANGED <<files, error, pc, df_age_gender_detail,
                   df_age_gender_melted, views, widgets, charts, reruns>>

CallPreprocessAgeGender ==
    /\ "load_data" \in cache.has
    /\ "preprocess_age_gender_data" \notin cache.has
    /\ error = "none"
    /\ \E a \in {cached_preprocess_age_gender_data(cache)} :
           /\ cache' = a.c
           /\ df_age_gender_detail' = a.r.detail
           /\ df_age_gender_melted' = a.r.melted
           /\ error' = IF a.r.ok THEN "none" ELSE "ValueError"
           /\ pc' = IF a.r.ok THEN pc ELSE "failed"
    /\ UNCHANGED <<files, df_density, views, widgets, charts, reruns>>

NextPre == CallLoadData \/ CallPreprocessDensity \/ CallPreprocessAgeGender

SpecPre == InitPre /\ [][NextPre]_vars

(***************************************************************************)
(* The three chart pipelines as functions of the base tables and the       *)
(* selections: after loading, one pipeline is applied to one selection.    *)
(***************************************************************************)
ChartGroups ==
    << <<"WALES", "M">>, <<"ENGLAND", "F">>, <<"ENGLAND", "M">>,
       <<"SCOTLAND", "F">>, <<"NORTHERN IRELAND", "M">>,
       <<"NORTHERN IRELAND", "F">> >>

ChartLabelPool ==
    { <<"0">>, <<"1", "7">>, <<"1", "8">>, <<"6", "0">>, Label90Plus,
      <<"-", "5">> }

ChartFiles ==
    {[MYE5_Table8 |-> density_file(ns),
      MYEB1_Table9 |-> age_gender_file(ChartGroups, << <<"1", "7">> >>)] :
        ns \in ArrangementsUpTo(LocationNames, MaxDensityRows) \cup {<<>>}}
    \cup
    {[MYE5_Table8 |-> density_file(<<"WALES", "ENGLAND">>),
      MYEB1_Table9 |-> age_gender_file(ChartGroups, ls)] :
        ls \in ArrangementsUpTo(ChartLabelPool, MaxLabels)}

InitCharts == \E fs \in ChartFiles : Fresh(fs)

NothingRendered ==
    /\ chart_density = NotRendered
    /\ chart_age = NotRendered
    /\ chart_gender = NotRendered

\* lines 63-65 have run
TablesReady ==
    {"preprocess_density_data", "preprocess_age_gender_data"} \subseteq cache.has

\* lines 102-140 on a selection
build_density_chart ==
    /\ TablesReady
    /\ NothingRendered
    /\ \E S \in SUBSET LocationNames :
        \E s \in {density_section(df_density, S)} :
            /\ selected_density_locations' = S
            /\ df_density' = s.base
            /\ filtered_df_density' = s.view
            /\ chart_density' = s.chart
    /\ UNCHANGED <<files, cache, error, pc, df_age_gender_detail,
                   df_age_gender_melted, filtered_df_age_detail,
                   grouped_df_gender, selected_age_gender_location,
                   selected_gender_display, selected_gender_comp_year,
                   selected_gender_comp_locs, selected_gender_comp_age_band,
                   chart_age, chart_gender, reruns>>

\* lines 164-208 on a location and a sex code, either of which may be missing
build_age_distribution_chart ==
    /\ TablesReady
    /\ NothingRendered
    /\ \E loc \in LocationNames \cup {None}, sex \in Sexes \cup {None} :
        \E s \in {age_section(df_age_gender_detail, loc, sex)} :
            /\ selected_age_gender_location' = loc
            /\ selected_gender_display' =
                    IF sex = None THEN None ELSE genders_map(sex)
            /\ df_age_gender_detail' = s.base
            /\ filtered_df_age_detail' = s.view
            /\ chart_age' = s.chart
    /\ UNCHANGED <<files, cache, error, pc, df_density, df_age_gender_melted,
                   filtered_df_density, grouped_df_gender,
                   selected_density_locations, selected_gender_comp_year,
                   selected_gender_comp_locs, selected_gender_comp_age_band,
                   chart_density, chart_gender, reruns>>

\* lines 236-301 on a year, a set of locations and an age band
build_gender_comparison_chart ==
    /\ TablesReady
    /\ NothingRendered
    /\ \E y \in {2011, 2022}, L \in SUBSET LocationNames,
          b \in Range(age_bands_options) :
        \E s \in {gender_section(df_age_gender_melted, y, L, b)} :
            /\ selected_gender_comp_year' = y
            /\ selected_gender_comp_locs' = L
            /\ selected_gender_comp_age_band' = b
            /\ df_age_gender_melted' = s.base
            /\ grouped_df_gender' = s.view
            /\ chart_gender' = s.chart
    /\ UNCHANGED <<files, cache, error, pc, df_density, df_age_gender_detail,
                   filtered_df_density, filtered_df_age_detail,
                   selected_density_locations, selected_age_gender_location,
                   selected_gender_display, chart_density, chart_age, reruns>>

NextCharts ==
    \/ CallLoadData
    \/ CallPreprocessDensity
    \/ CallPreprocessAgeGender
    \/ build_density_chart
    \/ build_age_distribution_chart
    \/ build_gender_comparison_chart

SpecCharts == InitCharts /\ [][NextCharts]_vars

(***************************************************************************)
(* What the specification says of the preprocessors, stated on the raw     *)
(* file and without the operators of the model.                            *)
(***************************************************************************)
raw_age_gender == files.MYEB1_Table9

raw_density == files.MYE5_Table8

\* preprocess_age_gender_data returned / returned or raised
PreprocessSucceeded == "preprocess_age_gender_data" \in cache.has

PreprocessActed == PreprocessSucceeded \/ error # "none"

\* an optional sign followed by one or more decimal digits
ClaimIsInteger(label) ==
    LET n == Len(label)
        from == IF n > 0 /\ label[1] \in {"+", "-"} THEN 2 ELSE 1
    IN  from <= n /\ \A i \in from..n : label[i] \in Digits

RECURSIVE ClaimPositional(_, _)
ClaimPositional(label, i) ==
    IF i > Len(label) THEN 0
    ELSE (IF label[i] \in Digits THEN DigitVal(label[i]) * 10 ^ (Len(label) - i)
          ELSE 0)
         + ClaimPositional(label, i + 1)

\* the integer a label denotes: its digits weighted by their position
ClaimIntegerValue(label) ==
    IF label[1] = "-" THEN 0 - ClaimPositional(label, 1)
    ELSE ClaimPositional(label, 1)

\* a valid age: the sentinel, or a non-negative integer
ClaimValidAge(label) ==
    label = Label90Plus \/ (ClaimIsInteger(label) /\ ClaimIntegerValue(label) >= 0)

SixBands == {"0-17", "18-24", "25-39", "40-59", "60-74", "75+"}

\* the band of the right-closed interval that holds n, NaN when none does
ClaimBand(n) ==
    CASE -1 < n /\ n <= 17 -> "0-17"
      [] 17 < n /\ n <= 24 -> "18-24"
      [] 24 < n /\ n <= 39 -> "25-39"
      [] 39 < n /\ n <= 59 -> "40-59"
      [] 59 < n /\ n <= 74 -> "60-74"
      [] 74 < n -> "75+"
      [] OTHER -> NaN

\* C3: every detail row's age_band is one of the six bands, the band of the
\* right-closed interval that holds its age_numeric; no row is left without one.
C3_EveryDetailRowHasItsBand ==
    PreprocessSucceeded =>
        \A i \in DOMAIN df_age_gender_detail :
            /\ df_age_gender_detail[i].age_band \in SixBands
            /\ df_age_gender_detail[i].age_band =
                    ClaimBand(df_age_gender_detail[i].age_numeric)

\* C4: unpivoting is lossless: every detail row (name, sex, age) has exactly two
\* long-form rows, Year 2011 with its population_2011 and Year 2022 with its
\* population_2022, both keeping age_numeric and age_band; the long-form table
\* has twice the rows of the detail table.
C4_UnpivotLossless ==
    PreprocessSucceeded =>
        /\ Len(df_age_gender_melted) = 2 * Len(df_age_gender_detail)
        /\ \A i \in DOMAIN df_age_gender_detail :
            LET d == df_age_gender_detail[i]
                rows == {k \in DOMAIN df_age_gender_melted :
                            /\ df_age_gender_melted[k].name = d.name
                            /\ df_age_gender_melted[k].sex = d.sex
                            /\ df_age_gender_melted[k].age = d.age}
                carries(k, y, p) ==
                    /\ df_age_gender_melted[k].Year = y
                    /\ df_age_gender_melted[k].Population = p
                    /\ df_age_gender_melted[k].age_numeric = d.age_numeric
                    /\ df_age_gender_melted[k].age_band = d.age_band
            IN  /\ Cardinality(rows) = 2
                /\ \E k \in rows : carries(k, 2011, d.population_2011)
                /\ \E k \in rows : carries(k, 2022, d.population_2022)

\* a file of several groups and two age labels was unpivoted, and some row's
\* two populations differ
C4_Witness ==
    /\ PreprocessSucceeded
    /\ Len(df_age_gender_detail) >= 6
    /\ Len(df_age_gender_melted) >= 12
    /\ \E i \in DOMAIN df_age_gender_detail :
            df_age_gender_detail[i].population_2011 #
                df_age_gender_detail[i].population_2022

\* C5: age_numeric is the integer the age label denotes, except that "90+" gives
\* 90; the age label itself is kept as it was in the raw file.
C5_AgeNumericIsTheParsedLabel ==
    PreprocessSucceeded =>
        /\ Len(df_age_gender_detail) = Len(raw_age_gender)
        /\ \A i \in DOMAIN raw_age_gender :
            /\ df_age_gender_detail[i].age = raw_age_gender[i].age
            /\ df_age_gender_detail[i].age_numeric =
                    IF raw_age_gender[i].age = Label90Plus THEN 90
                    ELSE ClaimIntegerValue(raw_age_gender[i].age)

\* a file with the sentinel and a two-digit label was preprocessed
C5_Witness ==
    /\ PreprocessSucceeded
    /\ \E i, j \in DOMAIN df_age_gender_detail :
            /\ df_age_gender_detail[i].age = Label90Plus
            /\ df_age_gender_detail[i].age_numeric = 90
            /\ df_age_gender_detail[j].age = <<"1", "7">>
            /\ df_age_gender_detail[j].age_numeric = 17

\* C6: when some raw age is neither "90+" nor a non-negative integer, the
\* preprocessor fails with ValueError and produces no detail or long-form table.
C6_InvalidAgeRaises ==
    (PreprocessActed /\ \E i \in DOMAIN raw_age_gender :
                            ~ClaimValidAge(raw_age_gender[i].age))
        => /\ error = "ValueError"
           /\ df_age_gender_detail = <<>>
           /\ df_age_gender_melted = <<>>

(***************************************************************************)
(* What the specification says of the chart pipelines.                     *)
(***************************************************************************)
\* the location names in alphabetical order
ClaimNameOrder == <<"ENGLAND", "NORTHERN IRELAND", "SCOTLAND", "WALES">>

ClaimPos(n) == CHOOSE i \in DOMAIN ClaimNameOrder : ClaimNameOrder[i] = n

\* a placeholder chart: a message for a title and no data series
IsPlaceholder(fig) ==
    /\ fig.traces = <<>>
    /\ ~fig.axes_visible
    /\ fig.title # <<>>

DensityRendered == chart_density # NotRendered

AgeRendered == chart_age # NotRendered

GenderRendered == chart_gender # NotRendered

\* C1: for a non-empty selection of names of the density table, the filtered
\* view holds exactly the rows whose name is selected, ascending by name, each
\* with the area, population and density values of its row of the base table.
C1_DensityFilterExact ==
    (/\ DensityRendered
     /\ selected_density_locations # {}
     /\ selected_density_locations \subseteq
            {raw_density[j]["Name"] : j \in DOMAIN raw_density})
    => LET v == filtered_df_density
       IN  /\ \A n \in LocationNames :
                Cardinality({i \in DOMAIN v : v[i].name = n}) =
                    IF n \in selected_density_locations
                    THEN Cardinality({j \in DOMAIN raw_density :
                                        raw_density[j]["Name"] = n})
                    ELSE 0
           /\ \A i \in 1..(Len(v) - 1) :
                ClaimPos(v[i].name) <= ClaimPos(v[i + 1].name)
           /\ \A i \in DOMAIN v :
                /\ \E k \in DOMAIN df_density : df_density[k] = v[i]
                /\ \E j \in DOMAIN raw_density :
                    /\ raw_density[j]["Name"] = v[i].name
                    /\ raw_density[j]["Area (sq km)"] = v[i].area_sq_km
                    /\ raw_density[j]["Estimated Population mid-2011"] =
                            v[i].population_2011
                    /\ raw_density[j]["Estimated Population mid-2022"] =
                            v[i].population_2022
                    /\ raw_density[j]["2011 people per sq. km"] = v[i].density_2011
                    /\ raw_density[j]["2022 people per sq. km"] = v[i].density_2022

\* part of a table that is not in alphabetical order was selected: two rows are
\* returned in the other order than the table holds them, and a row is left out
C1_Witness ==
    /\ DensityRendered
    /\ selected_density_locations \subseteq
            {raw_density[j]["Name"] : j \in DOMAIN raw_density}
    /\ Len(filtered_df_density) = 2
    /\ Len(df_density) = 3
    /\ \E i, j \in DOMAIN df_density :
            /\ i < j
            /\ df_density[i].name = filtered_df_density[2].name
            /\ df_density[j].name = filtered_df_density[1].name

\* the age a raw label stands for
ClaimAge(label) ==
    IF label = Label90Plus THEN 90 ELSE ClaimIntegerValue(label)

\* the raw rows of a name and a sex that an age-band selector keeps
ClaimRawRows(n, s, b) ==
    {j \in DOMAIN raw_age_gender :
        /\ raw_age_gender[j].name = n
        /\ raw_age_gender[j].sex = s
        /\ (b = "All Ages" \/ ClaimBand(ClaimAge(raw_age_gender[j].age)) = b)}

RECURSIVE ClaimSum(_, _)
ClaimSum(J, col) ==
    IF J = {} THEN 0
    ELSE LET j == CHOOSE k \in J : TRUE
         IN  raw_age_gender[j][col] + ClaimSum(J \ {j}, col)

ClaimYearColumn(y) == IF y = 2011 THEN "population_2011" ELSE "population_2022"

RECURSIVE ClaimGroupedTotal(_, _)
ClaimGroupedTotal(g, n) ==
    IF g = <<>> THEN 0
    ELSE (IF g[1].name = n THEN g[1].Population ELSE 0)
         + ClaimGroupedTotal(Tail(g), n)

\* C2: for a year, a non-empty set of locations and an age-band selector, the
\* grouped result has at most one row per (name, sex), every name is selected,
\* and a row's Population is the sum of that year's population over the raw
\* rows of its name and sex in the band (all ages for "All Ages"); with "All
\* Ages" a name's total over both sexes is the raw total of the name, and one
\* location gives at most two rows.
C2_GenderAggregation ==
    (GenderRendered /\ selected_gender_comp_locs # {})
    => LET g == grouped_df_gender
           y == selected_gender_comp_year
           b == selected_gender_comp_age_band
           L == selected_gender_comp_locs
       IN  /\ \A i \in DOMAIN g : g[i].name \in L
           /\ \A i, j \in DOMAIN g :
                (g[i].name = g[j].name /\ g[i].sex = g[j].sex) => i = j
           /\ \A i \in DOMAIN g :
                g[i].Population =
                    ClaimSum(ClaimRawRows(g[i].name, g[i].sex, b),
                             ClaimYearColumn(y))
           /\ \A n \in L, s \in Sexes :
                ClaimRawRows(n, s, b) # {} =>
                    \E i \in DOMAIN g : g[i].name = n /\ g[i].sex = s
           /\ b = "All Ages" =>
                \A n \in L :
                    ClaimGroupedTotal(g, n) =
                        ClaimSum({j \in DOMAIN raw_age_gender :
                                    raw_age_gender[j].name = n},
                                 ClaimYearColumn(y))
           /\ Cardinality(L) = 1 => Len(g) <= 2

\* one location and a band were chosen; both sexes have a row, one of them the
\* sum of two ages of the band, while the file also holds an age outside it
C2_Witness ==
    /\ GenderRendered
    /\ Cardinality(selected_gender_comp_locs) = 1
    /\ selected_gender_comp_age_band = "0-17"
    /\ Len(grouped_df_gender) = 2
    /\ \E i \in DOMAIN grouped_df_gender :
            Cardinality(ClaimRawRows(grouped_df_gender[i].name,
                                     grouped_df_gender[i].sex, "0-17")) = 2

\* a second case of C2: the band leaves out an age that the file holds
C2_BandExcludesWitness ==
    /\ GenderRendered
    /\ selected_gender_comp_age_band = "18-24"
    /\ \E i \in DOMAIN grouped_df_gender :
            /\ ClaimRawRows(grouped_df_gender[i].name,
                            grouped_df_gender[i].sex, "18-24") #
               ClaimRawRows(grouped_df_gender[i].name,
                            grouped_df_gender[i].sex, "All Ages")

ClaimSexOfDisplay(d) == IF d = "Male" THEN "M" ELSE "F"

\* no location or no sex chosen, or no row of the (location, sex)
ClaimAgeNothingToShow ==
    \/ selected_age_gender_location = None
    \/ selected_gender_display = None
    \/ ~\E j \in DOMAIN raw_age_gender :
            /\ raw_age_gender[j].name = selected_age_gender_location
            /\ raw_age_gender[j].sex = ClaimSexOfDisplay(selected_gender_display)

\* no location chosen, or no row of the year, the locations and the band
ClaimGenderNothingToShow ==
    \/ selected_gender_comp_locs = {}
    \/ \A n \in selected_gender_comp_locs, s \in Sexes :
            ClaimRawRows(n, s, selected_gender_comp_age_band) = {}

\* C7: an empty selection or an empty result is no error: the age-distribution
\* output is the placeholder chart when no location or no sex is chosen or no
\* row matches, the gender-comparison output is the placeholder chart when no
\* location is chosen or the grouped result has no rows, and no error is raised.
C7_EmptyIsPlaceholder ==
    /\ (AgeRendered /\ ClaimAgeNothingToShow) =>
            (IsPlaceholder(chart_age) /\ error = "none")
    /\ (GenderRendered /\ ClaimGenderNothingToShow) =>
            (IsPlaceholder(chart_gender) /\ grouped_df_gender = <<>>
             /\ error = "none")

\* a location and a sex were chosen of which the file has no row
C7_Witness ==
    /\ AgeRendered
    /\ selected_age_gender_location \in
            {raw_age_gender[j].name : j \in DOMAIN raw_age_gender}
    /\ selected_gender_display = "Female"
    /\ ClaimAgeNothingToShow
    /\ IsPlaceholder(chart_age)

StartupDensity == preprocess_density_data(load_data(files)[1])

StartupAgeGender == preprocess_age_gender_data(load_data(files)[2])

\* C9: after any sequence of widget changes and reruns the density table, the
\* age/gender detail table and the long-form table, and the copies the cache
\* keeps of them, hold exactly the rows and values produced at startup; the
\* filters, sorts and aggregations write nothing back.
C9_BaseTablesImmutable ==
    pc = "ready" =>
        LET density == StartupDensity
            age_gender == StartupAgeGender
        IN  /\ df_density = density
            /\ df_age_gender_detail = age_gender.detail
            /\ df_age_gender_melted = age_gender.melted
            /\ cache.preprocess_density_data = density
            /\ cache.preprocess_age_gender_data = age_gender

\* after two reruns every section shows a view smaller than its base table
C9_Witness ==
    /\ pc = "ready"
    /\ reruns >= 2
    /\ filtered_df_density # <<>>
    /\ Len(filtered_df_density) < Len(df_density)
    /\ selected_gender_comp_age_band # "All Ages"
    /\ grouped_df_gender # <<>>
    /\ filtered_df_age_detail # <<>>
    /\ Len(filtered_df_age_detail) < Len(df_age_gender_detail)

\* C10: after any sequence of widget changes the three charts equal the charts
\* of a run from scratch, with nothing cached, on the current selections; so
\* two histories ending in the same selections show the same charts.
C10_HistoryIndependent ==
    pc = "ready" =>
        LET r == script(EmptyCache, files, current_widgets, FALSE)
        IN  /\ chart_density = r.chart_density
            /\ chart_age = r.chart_age
            /\ chart_gender = r.chart_gender
            /\ filtered_df_density = r.filtered_df_density
            /\ filtered_df_age_detail = r.filtered_df_age_detail
            /\ grouped_df_gender = r.grouped_df_gender

\* the selections were narrowed and then set back to what the first run showed
C10_Witness ==
    /\ pc = "ready"
    /\ reruns = 2
    /\ current_widgets = default_widgets(df_age_gender_melted)
    /\ Len(chart_gender.traces) = 2

====
